---- MODULE Spec2Model ----
(***************************************************************************)
(* Model of the table-backed todo service of src/main.py: the table        *)
(* `todoitem` behind the SQLModel engine and the five /todos/ handlers.    *)
(* A request body is a JSON object, modelled as a function whose domain    *)
(* is the set of keys the caller sent; a key that is absent is None on     *)
(* the TodoItem built from it.                                             *)
(***************************************************************************)
EXTENDS Integers, Sequences, FiniteSets, TLC

\* Largest primary key the model lets the table hold.
MaxId == 2

\* Ids a path parameter or a body may name.
Ids == 1..MaxId

\* Titles a caller may send ("" is the empty string).
Titles == {"", "a"}

VARIABLES
    db,        \* rows of table todoitem: records [id, title, completed]
    req,       \* the request handled last
    resp,      \* the response it got
    assigned,  \* history: ids returned by successful creates so far
    deleted,   \* history: ids whose delete has succeeded so far
    seen,      \* history: per live id, the entity last returned by create/update
    table_exists, \* whether table todoitem exists in the database file
    workers,   \* per worker thread, the request it is handling and how far it is
    sessions,  \* the sessions that are open
    nsessions  \* how many sessions have been created

vars == <<db, req, resp, assigned, deleted, seen,
          table_exists, workers, sessions, nsessions>>

\* The state only requests handled step by step (concurrently) touch.
cvars == <<workers, sessions, nsessions>>

\* Worker threads that serve requests side by side.
Workers == {"w1", "w2"}

Idle == [pc |-> "idle"]

----------------------------------------------------------------------------
\* Request bodies: every combination of present/absent id, title, completed.

Opt(S) == {{}} \cup {{x} : x \in S}

Body(I, T, C) ==
    [f \in (IF I = {} THEN {} ELSE {"id"}) \cup
           (IF T = {} THEN {} ELSE {"title"}) \cup
           (IF C = {} THEN {} ELSE {"completed"}) |->
        CASE f = "id" -> CHOOSE x \in I : TRUE
          [] f = "title" -> CHOOSE x \in T : TRUE
          [] f = "completed" -> CHOOSE x \in C : TRUE]

Bodies == {Body(I, T, C) : I \in Opt(Ids), T \in Opt(Titles), C \in Opt(BOOLEAN)}

----------------------------------------------------------------------------
\* The model class and the table.

\* Variant of TodoItem whose completed field defaults to True.
TodoItem_default_true(body) ==
    [f \in DOMAIN body \cup {"completed"} |->
        IF f \in DOMAIN body THEN body[f] ELSE TRUE]

\* TodoItem built from a body: completed defaults to False, id and title
\* stay None (absent) when not sent; nothing is validated on a table model.
TodoItem(body) ==
    [f \in DOMAIN body \cup {"completed"} |->
        IF f \in DOMAIN body THEN body[f] ELSE FALSE]

Max(S) == CHOOSE x \in S : \A y \in S : y <= x

\* INTEGER PRIMARY KEY without AUTOINCREMENT: the rowid of an insert that
\* names no id is 1 on an empty table, else the largest rowid in use plus 1.
NextRowid(table) ==
    IF table = {} THEN 1 ELSE Max({r.id : r \in table}) + 1

\* session.get(TodoItem, todo_id): the rows with that primary key.
session_get(table, todo_id) == {r \in table : r.id = todo_id}

NotFound == [status |-> 404, detail |-> "Todo not found"]

ServerError == [status |-> 500, detail |-> "Internal Server Error"]

\* Variant of create_db_and_tables that drops the table and creates it anew.
create_db_and_tables_recreate(exists, rows) ==
    [exists |-> TRUE, rows |-> {}]

\* SQLModel.metadata.create_all(engine): creates table todoitem, empty, when
\* it does not exist and leaves an existing table alone.
create_db_and_tables(exists, rows) ==
    [exists |-> TRUE, rows |-> IF exists THEN rows ELSE {}]

----------------------------------------------------------------------------
\* The handlers, as functions of the table and the request.

create_todo(table, body) ==
    LET todo == TodoItem(body) IN
    IF "title" \notin DOMAIN todo
    THEN [table |-> table,
          resp  |-> [status |-> 400,
                     detail |-> "Title cannot be None at this stage."]]
    ELSE LET row == [id |-> IF "id" \in DOMAIN todo THEN todo.id
                                                   ELSE NextRowid(table),
                     title |-> todo.title,
                     completed |-> todo.completed]
         IN IF session_get(table, row.id) # {}
            THEN [table |-> table, resp |-> ServerError]
            ELSE [table |-> table \cup {row},
                  resp  |-> [status |-> 200, body |-> row]]

RECURSIVE SortById(_)
SortById(rows) ==
    IF rows = {} THEN <<>>
    ELSE LET first == CHOOSE r \in rows : \A s \in rows : r.id <= s.id
         IN <<first>> \o SortById(rows \ {first})

read_todos(table) == [status |-> 200, body |-> SortById(table)]

read_todo(table, todo_id) ==
    LET todo == session_get(table, todo_id) IN
    IF todo = {} THEN NotFound
    ELSE [status |-> 200, body |-> CHOOSE r \in todo : TRUE]

\* Variant of update_todo that inserts the entity when the id is not live.
update_todo_upsert(table, todo_id, body) ==
    LET found == session_get(table, todo_id)
        todo_update == TodoItem(body)
    IN IF "title" \notin DOMAIN todo_update
       THEN [table |-> table, resp |-> ServerError]
       ELSE LET row == [id |-> todo_id,
                        title |-> todo_update.title,
                        completed |-> todo_update.completed]
            IN [table |-> (table \ found) \cup {row},
                resp  |-> [status |-> 200, body |-> row]]

\* Variant of update_todo that assigns the title and forgets completed.
update_todo_title_only(table, todo_id, body) ==
    LET found == session_get(table, todo_id) IN
    IF found = {}
    THEN [table |-> table, resp |-> NotFound]
    ELSE LET db_todo == CHOOSE r \in found : TRUE
             todo_update == TodoItem(body)
         IN IF "title" \notin DOMAIN todo_update
            THEN [table |-> table, resp |-> ServerError]
            ELSE LET row == [id |-> db_todo.id,
                             title |-> todo_update.title,
                             completed |-> db_todo.completed]
                 IN [table |-> (table \ {db_todo}) \cup {row},
                     resp  |-> [status |-> 200, body |-> row]]

\* Variant of update_todo whose write is not restricted to the addressed
\* row: every row takes the submitted title and completed.
update_todo_all_rows(table, todo_id, body) ==
    LET found == session_get(table, todo_id) IN
    IF found = {}
    THEN [table |-> table, resp |-> NotFound]
    ELSE LET db_todo == CHOOSE r \in found : TRUE
             todo_update == TodoItem(body)
         IN IF "title" \notin DOMAIN todo_update
            THEN [table |-> table, resp |-> ServerError]
            ELSE LET row == [id |-> db_todo.id,
                             title |-> todo_update.title,
                             completed |-> todo_update.completed]
                 IN [table |-> {[id |-> r.id,
                                 title |-> todo_update.title,
                                 completed |-> todo_update.completed] : r \in table},
                     resp  |-> [status |-> 200, body |-> row]]

\* Variant of update_todo that assigns only the fields the body carries
\* (exclude_unset), keeping the stored completed when it is omitted.
update_todo_merge(table, todo_id, body) ==
    LET found == session_get(table, todo_id) IN
    IF found = {}
    THEN [table |-> table, resp |-> NotFound]
    ELSE LET db_todo == CHOOSE r \in found : TRUE
         IN IF "title" \notin DOMAIN body
            THEN [table |-> table, resp |-> ServerError]
            ELSE LET row == [id |-> db_todo.id,
                             title |-> body.title,
                             completed |-> IF "completed" \in DOMAIN body
                                           THEN body.completed
                                           ELSE db_todo.completed]
                 IN [table |-> (table \ {db_todo}) \cup {row},
                     resp  |-> [status |-> 200, body |-> row]]

update_todo(table, todo_id, body) ==
    LET found == session_get(table, todo_id) IN
    IF found = {}
    THEN [table |-> table, resp |-> NotFound]
    ELSE LET db_todo == CHOOSE r \in found : TRUE
             todo_update == TodoItem(body)
         IN IF "title" \notin DOMAIN todo_update
            THEN [table |-> table, resp |-> ServerError]
            ELSE LET row == [id |-> db_todo.id,
                             title |-> todo_update.title,
                             completed |-> todo_update.completed]
                 IN [table |-> (table \ {db_todo}) \cup {row},
                     resp  |-> [status |-> 200, body |-> row]]

\* Variant of delete_todo that answers success without committing the delete.
delete_todo_no_commit(table, todo_id) ==
    LET found == session_get(table, todo_id) IN
    IF found = {}
    THEN [table |-> table, resp |-> NotFound]
    ELSE [table |-> table,
          resp  |-> [status |-> 200, message |-> "Todo deleted successfully"]]

\* Variant of delete_todo that empties the table.
delete_todo_all_rows(table, todo_id) ==
    LET found == session_get(table, todo_id) IN
    IF found = {}
    THEN [table |-> table, resp |-> NotFound]
    ELSE [table |-> {},
          resp  |-> [status |-> 200, message |-> "Todo deleted successfully"]]

delete_todo(table, todo_id) ==
    LET found == session_get(table, todo_id) IN
    IF found = {}
    THEN [table |-> table, resp |-> NotFound]
    ELSE [table |-> table \ found,
          resp  |-> [status |-> 200, message |-> "Todo deleted successfully"]]

----------------------------------------------------------------------------
\* The service: one request at a time.  The application serves requests
\* once its lifespan has run the startup hook.

Init ==
    /\ table_exists = FALSE
    /\ workers = [w \in Workers |-> Idle]
    /\ sessions = {}
    /\ nsessions = 0
    /\ db = {}
    /\ req = [op |-> "none"]
    /\ resp = [status |-> 0]
    /\ assigned = {}
    /\ deleted = {}
    /\ seen = {}

\* The process (re)starts: lifespan runs create_db_and_tables.
Startup ==
    LET out == create_db_and_tables(table_exists, db) IN
    /\ table_exists' = out.exists
    /\ db' = out.rows
    /\ req' = [op |-> "startup"]
    /\ resp' = [status |-> 0]
    /\ UNCHANGED <<assigned, deleted, seen, cvars>>

Create ==
    \E body \in Bodies :
        LET out == create_todo(db, body) IN
        /\ table_exists
        /\ ("id" \notin DOMAIN body /\ "title" \in DOMAIN body)
               => NextRowid(db) <= MaxId
        /\ db' = out.table
        /\ req' = [op |-> "create", body |-> body]
        /\ resp' = out.resp
        /\ assigned' = IF out.resp.status = 200
                       THEN assigned \cup {out.resp.body.id} ELSE assigned
        /\ seen' = IF out.resp.status = 200
                   THEN seen \cup {out.resp.body} ELSE seen
        /\ UNCHANGED <<deleted, table_exists, cvars>>

ReadTodos ==
    /\ table_exists
    /\ req' = [op |-> "list"]
    /\ resp' = read_todos(db)
    /\ UNCHANGED <<db, assigned, deleted, seen, table_exists, cvars>>

ReadTodo ==
    \E todo_id \in Ids :
        /\ table_exists
        /\ req' = [op |-> "get", todo_id |-> todo_id]
        /\ resp' = read_todo(db, todo_id)
        /\ UNCHANGED <<db, assigned, deleted, seen, table_exists, cvars>>

Update ==
    \E todo_id \in Ids, body \in Bodies :
        LET out == update_todo(db, todo_id, body) IN
        /\ table_exists
        /\ db' = out.table
        /\ req' = [op |-> "update", todo_id |-> todo_id, body |-> body]
        /\ resp' = out.resp
        /\ seen' = IF out.resp.status = 200
                   THEN {r \in seen : r.id # todo_id} \cup {out.resp.body}
                   ELSE seen
        /\ UNCHANGED <<assigned, deleted, table_exists, cvars>>

Delete ==
    \E todo_id \in Ids :
        LET out == delete_todo(db, todo_id) IN
        /\ table_exists
        /\ db' = out.table
        /\ req' = [op |-> "delete", todo_id |-> todo_id]
        /\ resp' = out.resp
        /\ deleted' = IF out.resp.status = 200
                      THEN deleted \cup {todo_id} ELSE deleted
        /\ seen' = IF out.resp.status = 200
                   THEN {r \in seen : r.id # todo_id} ELSE seen
        /\ UNCHANGED <<assigned, table_exists, cvars>>

Next == Startup \/ Create \/ ReadTodos \/ ReadTodo \/ Update \/ Delete

Spec == Init /\ [][Next]_vars

----------------------------------------------------------------------------
\* The service with requests side by side: each worker thread runs one
\* handler statement by statement; every SQL statement and every commit is
\* one step on the shared table.

\* Requests the model lets the workers start, in total.
MaxRequests == 3

\* Bodies sent by the concurrent callers (none names an id).
CBodies == {b \in Bodies : "id" \notin DOMAIN b}

NoResp == [status |-> 0]

InFlight(w) == workers[w].pc # "idle"

\* Variant of get_session_exit that closes the session only after a success.
get_session_exit_on_success(open, s, result) ==
    IF result.status = 200 THEN open \ {s} ELSE open

\* get_session: `with Session(engine) as session: yield session`.
\* Entering creates a session nobody holds yet ...
get_session_enter(open, created) == open \cup {created + 1}

\* ... and leaving the with block closes it, whatever the handler's result.
get_session_exit(open, s, result) == open \ {s}

Goto(w, pc, obj, result) ==
    workers' = [workers EXCEPT ![w] =
                   [@ EXCEPT !.pc = pc, !.obj = obj, !.resp = result]]

\* A request arrives at an idle worker: Depends(get_session) opens its session.
Begin(w) ==
    /\ table_exists
    /\ ~InFlight(w)
    /\ nsessions < MaxRequests
    /\ \E op \in {"create", "list", "get", "update", "delete"},
          todo_id \in Ids, body \in CBodies :
          /\ op \in {"create", "list"} => todo_id = 1
          /\ op \in {"list", "get", "delete"} => body = Body({}, {}, {})
          /\ workers' = [workers EXCEPT ![w] =
                 [pc |-> "start", op |-> op, todo_id |-> todo_id, body |-> body,
                  session |-> nsessions + 1, obj |-> {}, resp |-> NoResp]]
    /\ sessions' = get_session_enter(sessions, nsessions)
    /\ nsessions' = nsessions + 1
    /\ UNCHANGED <<db, req, resp, assigned, deleted, seen, table_exists>>

\* create_todo up to session.commit(): the title check, then the INSERT.
CreateCommit(w) ==
    LET me == workers[w]
        out == create_todo(db, me.body)
    IN /\ me.pc = "start" /\ me.op = "create"
       /\ ("title" \in DOMAIN me.body) => NextRowid(db) <= MaxId
       /\ db' = out.table
       /\ IF out.resp.status = 200
          THEN Goto(w, "refresh", {out.resp.body}, NoResp)
          ELSE Goto(w, "done", {}, out.resp)
       /\ UNCHANGED <<req, resp, assigned, deleted, seen, table_exists,
                      sessions, nsessions>>

\* session.refresh(obj): SELECT the row by primary key; a row that is gone
\* raises InvalidRequestError.  The handler returns the refreshed object.
Refresh(w) ==
    LET me == workers[w]
        id == (CHOOSE r \in me.obj : TRUE).id
        now == session_get(db, id)
    IN /\ me.pc = "refresh"
       /\ IF now = {}
          THEN Goto(w, "done", {}, ServerError)
          ELSE Goto(w, "done", now, [status |-> 200, body |-> CHOOSE r \in now : TRUE])
       /\ UNCHANGED <<db, req, resp, assigned, deleted, seen, table_exists,
                      sessions, nsessions>>

ReadTodosStep(w) ==
    LET me == workers[w] IN
    /\ me.pc = "start" /\ me.op = "list"
    /\ Goto(w, "done", {}, read_todos(db))
    /\ UNCHANGED <<db, req, resp, assigned, deleted, seen, table_exists,
                   sessions, nsessions>>

ReadTodoStep(w) ==
    LET me == workers[w] IN
    /\ me.pc = "start" /\ me.op = "get"
    /\ Goto(w, "done", {}, read_todo(db, me.todo_id))
    /\ UNCHANGED <<db, req, resp, assigned, deleted, seen, table_exists,
                   sessions, nsessions>>

\* session.get(TodoItem, todo_id) of update_todo and delete_todo, and the
\* 404 when there is no such row.
Get(w) ==
    LET me == workers[w]
        found == session_get(db, me.todo_id)
    IN /\ me.pc = "start" /\ me.op \in {"update", "delete"}
       /\ IF found = {}
          THEN Goto(w, "done", {}, NotFound)
          ELSE Goto(w, IF me.op = "update" THEN "assign" ELSE "commit", found, NoResp)
       /\ UNCHANGED <<db, req, resp, assigned, deleted, seen, table_exists,
                      sessions, nsessions>>

\* db_todo.title = ...; db_todo.completed = ...; session.add(db_todo): the
\* object changes in the worker's memory only.
Assign(w) ==
    LET me == workers[w] IN
    /\ me.pc = "assign"
    /\ Goto(w, "commit", me.obj, NoResp)
    /\ UNCHANGED <<db, req, resp, assigned, deleted, seen, table_exists,
                   sessions, nsessions>>

\* The columns the flush writes: those whose assigned value differs from
\* the value the object was loaded with.
DirtyColumns(loaded, todo_update) ==
    {c \in {"title", "completed"} : todo_update[c] # loaded[c]}

\* session.commit() of update_todo: UPDATE todoitem SET <dirty columns>
\* WHERE id = ?.  A None title violates NOT NULL; an UPDATE that matches no
\* row raises StaleDataError; no dirty column means no UPDATE at all.
UpdateCommit(w) ==
    LET me == workers[w]
        loaded == CHOOSE r \in me.obj : TRUE
        todo_update == TodoItem(me.body)
        now == session_get(db, me.todo_id)
    IN /\ me.pc = "commit" /\ me.op = "update"
       /\ IF "title" \notin DOMAIN todo_update
          THEN db' = db /\ Goto(w, "done", {}, ServerError)
          ELSE LET dirty == DirtyColumns(loaded, todo_update) IN
               IF dirty = {}
               THEN db' = db /\ Goto(w, "refresh", me.obj, NoResp)
               ELSE IF now = {}
               THEN db' = db /\ Goto(w, "done", {}, ServerError)
               ELSE LET old == CHOOSE r \in now : TRUE
                        row == [c \in {"id", "title", "completed"} |->
                                   IF c \in dirty THEN todo_update[c] ELSE old[c]]
                    IN /\ db' = (db \ now) \cup {row}
                       /\ Goto(w, "refresh", me.obj, NoResp)
       /\ UNCHANGED <<req, resp, assigned, deleted, seen, table_exists,
                      sessions, nsessions>>

\* session.delete(todo); session.commit(): DELETE FROM todoitem WHERE id = ?
\* (a DELETE that matches no row only warns), then the confirmation.
DeleteCommit(w) ==
    LET me == workers[w] IN
    /\ me.pc = "commit" /\ me.op = "delete"
    /\ db' = db \ session_get(db, me.todo_id)
    /\ Goto(w, "done", {}, [status |-> 200, message |-> "Todo deleted successfully"])
    /\ UNCHANGED <<req, resp, assigned, deleted, seen, table_exists,
                   sessions, nsessions>>

\* The handler has returned or raised: the with block of get_session closes
\* the session and the worker is free again.
Finish(w) ==
    LET me == workers[w] IN
    /\ me.pc = "done"
    /\ sessions' = get_session_exit(sessions, me.session, me.resp)
    /\ workers' = [workers EXCEPT ![w] = Idle]
    /\ UNCHANGED <<db, req, resp, assigned, deleted, seen, table_exists,
                   nsessions>>

ConcInit ==
    /\ table_exists = TRUE
    /\ workers = [w \in Workers |-> Idle]
    /\ sessions = {}
    /\ nsessions = 0
    /\ db = {}
    /\ req = [op |-> "startup"]
    /\ resp = [status |-> 0]
    /\ assigned = {}
    /\ deleted = {}
    /\ seen = {}

ConcNext ==
    \E w \in Workers :
        \/ Begin(w)
        \/ CreateCommit(w)
        \/ Refresh(w)
        \/ ReadTodosStep(w)
        \/ ReadTodoStep(w)
        \/ Get(w)
        \/ Assign(w)
        \/ UpdateCommit(w)
        \/ DeleteCommit(w)
        \/ Finish(w)

ConcSpec == ConcInit /\ [][ConcNext]_vars

----------------------------------------------------------------------------
\* Helpers of the properties.

LiveIds(table) == {r.id : r \in table}

\* A body the boundary contract calls well formed: a non-empty title.
WellFormed(body) == "title" \in DOMAIN body /\ body.title # ""

\* The completed value a body asks for (false when omitted).
Completed(body) == IF "completed" \in DOMAIN body THEN body.completed ELSE FALSE

Created == req.op = "create" /\ resp.status = 200
Updated == req.op = "update" /\ resp.status = 200
Deleted == req.op = "delete" /\ resp.status = 200

----------------------------------------------------------------------------
\* C1: once delete(id) has succeeded, every later get, update and delete of
\* that id fails with NotFound and id is in no later list(), whatever
\* creates, updates and deletes follow.
C1_DeleteIsTerminal ==
    \A i \in deleted :
        /\ read_todo(db, i) = NotFound
        /\ delete_todo(db, i).resp = NotFound
        /\ \A b \in Bodies : update_todo(db, i, b).resp = NotFound
        /\ \A k \in 1..Len(read_todos(db).body) : read_todos(db).body[k].id # i

\* C2: the id a successful create returns is larger than (hence distinct
\* from) every id an earlier create returned, deletes in between or not.
C2_IdsStrictlyIncreasing ==
    [][(req'.op = "create" /\ resp'.status = 200)
          => \A j \in assigned : resp'.body.id > j]_vars

\* C3: the id of the entity a create inserts does not depend on the body
\* (any other body that can be created in the same state gets the same id),
\* and an update leaves the id of the addressed entity alone.
C3_StoreOwnsIdentity ==
    [][/\ (req'.op = "create" /\ resp'.status = 200)
            => \A b \in Bodies :
                  create_todo(db, b).resp.status = 200
                      => create_todo(db, b).resp.body.id = resp'.body.id
       /\ (req'.op = "update" /\ resp'.status = 200)
            => /\ resp'.body.id = req'.todo_id
               /\ LiveIds(db') = LiveIds(db)]_vars

\* C4: a create whose title is non-empty succeeds in every reachable state:
\* it inserts exactly one new entity and returns it with its id.
C4_CreateNeverFails ==
    [][(req'.op = "create" /\ WellFormed(req'.body))
          => /\ resp'.status = 200
             /\ resp'.body \notin db
             /\ db' = db \cup {resp'.body}
             /\ Cardinality(db') = Cardinality(db) + 1]_vars

\* C5: get, update and delete of an id that is not live answer 404 with
\* detail "Todo not found" and leave every stored entity as it was.
C5_NotFoundNoEffect ==
    [][(req'.op \in {"get", "update", "delete"} /\ req'.todo_id \notin LiveIds(db))
          => /\ resp'.status = 404
             /\ resp'.detail = "Todo not found"
             /\ db' = db]_vars

C5_Witness ==
    /\ req.op = "update" /\ resp = NotFound
    /\ req.todo_id \in deleted
    /\ "title" \in DOMAIN req.body
    /\ db # {}

\* C6: list() holds exactly the entities created and not yet deleted, one
\* per id, with their current content; get succeeds exactly for their ids;
\* a store nothing was created in lists the empty sequence.
C6_Visibility ==
    LET todos == read_todos(db).body IN
    /\ {todos[k] : k \in 1..Len(todos)} = seen
    /\ \A k, l \in 1..Len(todos) : todos[k].id = todos[l].id => k = l
    /\ Len(todos) = Cardinality(seen)
    /\ \A i \in Ids : (read_todo(db, i).status = 200) <=> (i \in LiveIds(seen))
    /\ (assigned = {}) => todos = <<>>
    /\ (req.op = "list") => {resp.body[k] : k \in 1..Len(resp.body)} = seen

C6_Witness ==
    /\ req.op = "list"
    /\ Len(resp.body) = 1
    /\ deleted # {}
    /\ \E r \in seen : r.title = "a" /\ r.completed

\* C7: get of the id a create returned answers the entity the create
\* returned, which carries the submitted title and completed (false when
\* omitted); every entity keeps being returned as last written until an
\* update or delete of its id.
C7_CreateGetRoundTrip ==
    /\ Created =>
          /\ read_todo(db, resp.body.id) = [status |-> 200, body |-> resp.body]
          /\ resp.body.title = req.body.title
          /\ resp.body.completed = Completed(req.body)
    /\ \A r \in seen : read_todo(db, r.id) = [status |-> 200, body |-> r]

C7_Witness ==
    /\ Created
    /\ "completed" \notin DOMAIN req.body
    /\ Cardinality(db) >= 2

\* C8: update(id, t2, c2) of a live id answers the entity (id, t2, c2) and
\* a get of that id then answers (id, t2, c2).
C8_UpdateTakesEffect ==
    [][(/\ req'.op = "update"
        /\ req'.todo_id \in LiveIds(db)
        /\ "title" \in DOMAIN req'.body)
          => LET e == [id |-> req'.todo_id,
                       title |-> req'.body.title,
                       completed |-> Completed(req'.body)]
             IN /\ resp' = [status |-> 200, body |-> e]
                /\ read_todo(db', req'.todo_id) = [status |-> 200, body |-> e]]_vars

C8_Witness ==
    /\ Updated
    /\ resp.body.title = "a" /\ resp.body.completed
    /\ "id" \in DOMAIN req.body /\ req.body.id # req.todo_id
    /\ Cardinality(db) >= 2

\* C9: a successful update changes nothing but the title and completed of
\* the addressed entity: same live ids, every other entity untouched.
C9_UpdateFrame ==
    [][(req'.op = "update" /\ resp'.status = 200)
          => /\ LiveIds(db') = LiveIds(db)
             /\ \A r \in db : r.id # req'.todo_id => r \in db'
             /\ \A r \in db' : r.id # req'.todo_id => r \in db]_vars

C9_Witness ==
    /\ Updated
    /\ Cardinality(db) >= 2
    /\ \E r \in db : r.id # req.todo_id /\ r.completed # resp.body.completed
    /\ \E r \in db : r.id # req.todo_id /\ r.title # resp.body.title

\* C10: a successful delete removes exactly the addressed entity: list()
\* is one shorter, lacks the id, and holds every other entity unchanged.
C10_DeleteEffect ==
    [][(req'.op = "delete" /\ resp'.status = 200)
          => /\ Len(read_todos(db').body) = Len(read_todos(db).body) - 1
             /\ req'.todo_id \notin LiveIds(db')
             /\ \A r \in db : r.id # req'.todo_id => r \in db'
             /\ db' \subseteq db]_vars

C10_Witness ==
    /\ Deleted
    /\ db # {}
    /\ req.todo_id < Max(LiveIds(db))

\* C11: every live entity has a title of length at least 1, and a create
\* or update whose title is missing or empty is rejected and leaves the
\* table as it was.
C11_TitleValid ==
    [][/\ \A r \in db' : r.title # ""
       /\ (req'.op \in {"create", "update"} /\ ~WellFormed(req'.body))
            => (resp'.status # 200 /\ db' = db)]_vars

\* C15: a successful update stores exactly the submitted title and
\* completed, and completed false when the body omits it, whatever the
\* entity held before.
C15_FullReplace ==
    [][(req'.op = "update" /\ resp'.status = 200)
          => \E r \in db' :
                /\ r.id = req'.todo_id
                /\ r.title = req'.body.title
                /\ r.completed = IF "completed" \in DOMAIN req'.body
                                 THEN req'.body.completed ELSE FALSE]_vars

C15_Witness ==
    /\ Updated
    /\ "completed" \notin DOMAIN req.body
    /\ \E r \in db : r.id = req.todo_id /\ ~r.completed /\ r.title = "a"
    /\ \E r \in db : r.id # req.todo_id /\ r.completed

\* C16: list() is in ascending id order and that order is the order of
\* creation: a create puts its entity last, an update and a delete keep
\* the order of the entities that stay.
C16_ListOrder ==
    [][LET before == read_todos(db).body
           after  == read_todos(db').body
       IN /\ \A k, l \in 1..Len(after) : k < l => after[k].id < after[l].id
          /\ (req'.op = "create" /\ resp'.status = 200)
                => after = Append(before, resp'.body)
          /\ (req'.op = "update" /\ resp'.status = 200)
                => [k \in 1..Len(after) |-> after[k].id]
                     = [k \in 1..Len(before) |-> before[k].id]
          /\ (req'.op = "delete" /\ resp'.status = 200)
                => after = SelectSeq(before, LAMBDA r : r.id # req'.todo_id)]_vars

\* C17: on a fresh table the first successful create returns id 1 and, as
\* long as nothing was deleted, the k-th successful create returns id k.
C17_IdOrigin ==
    [][(req'.op = "create" /\ resp'.status = 200 /\ deleted = {})
          => resp'.body.id = Cardinality(assigned) + 1]_vars

\* C18: the startup hook run on a store whose table exists changes nothing
\* (every entity stays live with its id, title and completed), and running
\* it again after it has run gives the same store as running it once.
C18_IdempotentStartup ==
    [][/\ (req'.op = "startup" /\ table_exists)
            => (table_exists' /\ db' = db)
       /\ LET once == create_db_and_tables(table_exists, db)
          IN create_db_and_tables(once.exists, once.rows) = once]_vars

C18_Witness ==
    /\ req.op = "startup"
    /\ Cardinality(db) >= 2
    /\ \E r \in db : r.completed /\ r.title = "a"

\* The entity an update request submits for the id it addresses.
Submitted(me) ==
    [id |-> me.todo_id, title |-> me.body.title, completed |-> Completed(me.body)]

\* C12: when two updates of the same live id have run side by side, the
\* stored entity is the (title, completed) pair one of them submitted, never
\* a mix, and each request has returned the pair it submitted itself.
C12_NoTornWrite ==
    \A w1, w2 \in Workers :
        LET a == workers[w1]
            b == workers[w2]
        IN (/\ w1 # w2
            /\ a.pc = "done" /\ b.pc = "done"
            /\ a.op = "update" /\ b.op = "update"
            /\ a.todo_id = b.todo_id
            /\ "title" \in DOMAIN a.body /\ "title" \in DOMAIN b.body
            /\ a.resp # NotFound /\ b.resp # NotFound)
           => /\ session_get(db, a.todo_id) \subseteq {Submitted(a), Submitted(b)}
              /\ session_get(db, a.todo_id) # {}
              /\ a.resp = [status |-> 200, body |-> Submitted(a)]
              /\ b.resp = [status |-> 200, body |-> Submitted(b)]

\* C13: when an update and a delete of the same id have run side by side,
\* each has ended in success or NotFound, and if the delete succeeded the
\* entity is not live once both are complete.
C13_UpdateDeleteRace ==
    \A w1, w2 \in Workers :
        LET u == workers[w1]
            d == workers[w2]
        IN (/\ u.pc = "done" /\ d.pc = "done"
            /\ u.op = "update" /\ d.op = "delete"
            /\ u.todo_id = d.todo_id
            /\ "title" \in DOMAIN u.body)
           => /\ u.resp.status \in {200, 404}
              /\ d.resp.status \in {200, 404}
              /\ d.resp.status = 200 => u.todo_id \notin LiveIds(db)

\* C14: every request gets a session that no request had before, no two
\* requests in flight hold the same session, the open sessions are exactly
\* those of the requests in flight, and a request that ends, however it
\* ends, closes its session: with no request in flight no session is open.
C14_ScopedSession ==
    [][/\ sessions' = {workers'[w].session : w \in {v \in Workers : workers'[v].pc # "idle"}}
       /\ \A w1, w2 \in Workers :
             (/\ w1 # w2
              /\ workers'[w1].pc # "idle"
              /\ workers'[w2].pc # "idle")
                => workers'[w1].session # workers'[w2].session
       /\ \A w \in Workers :
             (workers[w].pc = "idle" /\ workers'[w].pc # "idle")
                => workers'[w].session \notin 1..nsessions
       /\ \A w \in Workers :
             (workers[w].pc = "done" /\ workers'[w].pc = "idle")
                => workers[w].session \notin sessions'
       /\ (\A w \in Workers : workers'[w].pc = "idle") => sessions' = {}]_vars

C14_Witness ==
    /\ workers["w1"].pc = "idle"
    /\ workers["w2"].pc = "done"
    /\ workers["w2"].resp = ServerError
    /\ "title" \in DOMAIN workers["w2"].body
    /\ sessions = {workers["w2"].session}
    /\ nsessions = 3

====
